---- MODULE Spec2Model ----
(***************************************************************************)
(* Model of the `features!` macro of src/src/lib.rs: every expansion       *)
(* declares a bitflags type `Flags: usize`, a `static mut FEATURES:        *)
(* AtomicUsize` and the four functions enable, disable, is_enabled, flags. *)
(*                                                                         *)
(* enable and disable reach the word through `FEATURES.get_mut()`, i.e.    *)
(* through a plain `&mut usize`: line 219 is a plain load, line 221 a      *)
(* plain store, and nothing orders them against the other threads.  A      *)
(* plain access that races is undefined behaviour; the model lets every    *)
(* plain access happen as one word access on a build whose target has      *)
(* usize-wide loads and stores, and as two accesses of half a word each,   *)
(* in either order, on a build whose target has not.  flags() is one       *)
(* atomic Relaxed load on both.                                            *)
(***************************************************************************)
EXTENDS Integers, Sequences, FiniteSets, TLC

\* Width of usize in bits, and the width of one plain access when the
\* target splits a usize access in two.
Width == 16
HalfWidth == Width \div 2

Threads == {"t1", "t2"}

WordMax == 2^Width - 1
LoMask == 2^HalfWidth - 1
HiMask == WordMax - LoMask

(***************************************************************************)
(* usize arithmetic: `&`, `|`, `!`.                                        *)
(***************************************************************************)
\* The recursions are over functions, whose arguments are evaluated once.
AndBits[a \in Nat, b \in Nat] ==
    IF a = 0 \/ b = 0 THEN 0
    ELSE (a % 2) * (b % 2) + 2 * AndBits[a \div 2, b \div 2]

OrBits[a \in Nat, b \in Nat] ==
    IF a = 0 THEN b
    ELSE IF b = 0 THEN a
    ELSE (IF a % 2 = 1 \/ b % 2 = 1 THEN 1 ELSE 0) + 2 * OrBits[a \div 2, b \div 2]

BitAnd(a, b) == AndBits[a, b]

BitOr(a, b) == OrBits[a, b]

BitNot(a) == WordMax - a

(***************************************************************************)
(* The programs: the `features!` invocations one process contains, each a  *)
(* map from module name to flags, each flag to its value; and the builds:  *)
(* a program and whether the target splits a plain usize access.           *)
(***************************************************************************)
DocModules ==
    [ux  |-> [JsonOutput |-> 128, VerboseOutput |-> 64],
     srv |-> [Http2Downloading |-> 128, BitTorrentDownloading |-> 64]]

TestModules == [f |-> [Alpha |-> 1, Beta |-> 2]]

WideModules == [wide |-> [Low |-> 1, High |-> 256]]

Builds ==
    {[mods |-> DocModules, split |-> FALSE],
     [mods |-> TestModules, split |-> FALSE],
     [mods |-> WideModules, split |-> TRUE]}

\* tests::disabling.
DisablingModules == [f |-> [Cool |-> 64, Beans |-> 128]]

\* An invocation whose two flags have a bit in common.
OverlapModules == [ov |-> [A |-> 3, B |-> 6]]

\* The builds of the runs in which the calls follow one another.
SeqBuilds ==
    {[mods |-> TestModules, split |-> FALSE],
     [mods |-> DisablingModules, split |-> FALSE],
     [mods |-> OverlapModules, split |-> FALSE],
     [mods |-> WideModules, split |-> TRUE]}

\* An invocation with one flag, in the upper half of the word.
SoloModules == [solo |-> [Only |-> 256]]

\* The builds of the runs in which every thread is scheduled fairly.
LiveBuilds ==
    {[mods |-> TestModules, split |-> FALSE],
     [mods |-> SoloModules, split |-> TRUE]}

\* The raw words handed to Flags::from_bits_truncate: 0 .. MaxRaw.
MaxRaw == 511
RawWords == 0..MaxRaw

VARIABLES
    mods,       \* the modules the process declares: name -> flag -> value
    split,      \* whether the build splits a plain usize access in two
    FEATURES,   \* the static of every module: name -> word
    pc,         \* per thread: where it is in its call
    cur,        \* per thread: the call in progress
    loc,        \* per thread: the local (`*features` as read, or the result)
    part,       \* per thread: the half of the word a split access has done
    fresh,      \* per thread: no other thread changed the call's word
                \*   since the call first loaded it
    did,        \* per thread: the one enable/disable call it made, as long
                \*   as no thread has made a second one (then ManyCalls)
    was         \* the word of every module when the threads started

vars == <<mods, split, FEATURES, pc, cur, loc, part, fresh, did, was>>

NoCall == [op |-> "none", grp |-> "none", arg |-> 0]

ManyCalls == [op |-> "many", grp |-> "none", arg |-> 0]

(***************************************************************************)
(* bitflags! { pub flags Flags: usize { ... } }                            *)
(***************************************************************************)
RECURSIVE OrAll(_, _)
OrAll(decl, names) ==
    IF names = {} THEN 0
    ELSE LET n == CHOOSE x \in names : TRUE
         IN  BitOr(decl[n], OrAll(decl, names \ {n}))

\* Flags::all()
all(g) == OrAll(mods[g], DOMAIN mods[g])

\* Every value of type Flags: the unions of declared flags.
FlagsValues(g) == {OrAll(mods[g], S) : S \in SUBSET DOMAIN mods[g]}

\* The declared constants of the module.
Declared(g) == {mods[g][n] : n \in DOMAIN mods[g]}

\* from_bits_truncate that keeps the word as it is.
from_bits_unchecked(g, b) == b

\* `Flags { bits: bits } & Flags::all()`
from_bits_truncate(g, b) == BitAnd(b, all(g))

\* insert as `self.bits ^= other.bits`.
insert_toggles(flags, other) == BitOr(flags, other) - BitAnd(flags, other)

\* insert as `self.bits = other.bits`.
insert_assigns(flags, other) == other

\* insert that sets the lowest bit of other only.
insert_lowest(flags, other) ==
    BitOr(flags, IF other = 0 THEN 0 ELSE other - BitAnd(other, other - 1))

\* `self.bits |= other.bits`
insert(flags, other) == BitOr(flags, other)

\* remove as `self.bits ^= other.bits`.
remove_toggles(flags, other) == BitOr(flags, other) - BitAnd(flags, other)

\* remove as `self.bits = !other.bits`.
remove_complement(flags, other) == BitNot(other)

\* remove as `self.bits = 0`.
remove_clears(flags, other) == 0

\* remove that clears nothing.
remove_keeps(flags, other) == flags

\* `self.bits &= !other.bits`
remove(flags, other) == BitAnd(flags, BitNot(other))

\* contains as intersects: `!(self & other).is_empty()`.
contains_any(flags, other) == BitAnd(flags, other) # 0

\* `(self & other) == other`
contains(flags, other) == BitAnd(flags, other) = other

bits(flags) == flags

\* The static initialised to `!0`.
InitAllOnes == WordMax

\* atomic::ATOMIC_USIZE_INIT
ATOMIC_USIZE_INIT == 0

Init ==
    /\ \E b \in Builds : mods = b.mods /\ split = b.split
    /\ FEATURES = [g \in DOMAIN mods |-> ATOMIC_USIZE_INIT]
    /\ pc = [t \in Threads |-> "idle"]
    /\ cur = [t \in Threads |-> NoCall]
    /\ loc = [t \in Threads |-> 0]
    /\ part = [t \in Threads |-> 0]
    /\ fresh = [t \in Threads |-> FALSE]
    /\ did = [t \in Threads |-> NoCall]
    /\ was = FEATURES

(***************************************************************************)
(* Bookkeeping shared by the steps.                                        *)
(***************************************************************************)
\* Thread t starts op(a) on module g.
NoteCall(t, op, g, a) ==
    did' = IF did[t] = NoCall
           THEN [did EXCEPT ![t] = [op |-> op, grp |-> g, arg |-> a]]
           ELSE [u \in Threads |-> ManyCalls]

\* Thread t stores w to the word of module g.
NoteStore(t, g, w) ==
    fresh' = [u \in Threads |->
                 IF u # t /\ cur[u].grp = g /\ w # FEATURES[g] THEN FALSE
                 ELSE fresh[u]]

\* The word with the bits under mask m taken from new, the others kept.
Merge(old, new, m) == BitOr(BitAnd(old, BitNot(m)), BitAnd(new, m))

\* What one plain access covers first: the word, or either half of it.
Accesses == IF split THEN {LoMask, HiMask} ELSE {WordMax}

\* One static shared by all the modules.
StoreWordShared(F, g, w) == [h \in DOMAIN F |-> w]

\* `static mut FEATURES` of module g takes the word w.
StoreWord(F, g, w) == [F EXCEPT ![g] = w]

\* Lines 217-219 and 225-227: the call, `FEATURES.get_mut()` and the plain
\* load of `*features`, as one word (m = WordMax) or its first half.
Call(t, op, g, flag, m) ==
    /\ pc[t] = "idle"
    /\ cur' = [cur EXCEPT ![t] = [op |-> op, grp |-> g, arg |-> flag]]
    /\ loc' = [loc EXCEPT ![t] = BitAnd(FEATURES[g], m)]
    /\ part' = [part EXCEPT ![t] = IF m = WordMax THEN 0 ELSE m]
    /\ pc' = [pc EXCEPT ![t] = IF m = WordMax THEN "store" ELSE "load_rest"]
    /\ fresh' = [fresh EXCEPT ![t] = TRUE]
    /\ NoteCall(t, op, g, flag)
    /\ UNCHANGED <<mods, split, was, FEATURES>>

enable_call(t, g, flag, m) == Call(t, "enable", g, flag, m)

disable_call(t, g, flag, m) == Call(t, "disable", g, flag, m)

\* Line 219 or 227, the other half of a split load.
plain_load_rest(t) ==
    /\ pc[t] = "load_rest"
    /\ pc' = [pc EXCEPT ![t] = "store"]
    /\ loc' = [loc EXCEPT ![t] = Merge(FEATURES[cur[t].grp], @, part[t])]
    /\ part' = [part EXCEPT ![t] = 0]
    /\ UNCHANGED <<mods, split, was, FEATURES, cur, fresh, did>>

\* Lines 219-221: what enable writes back, from the word it read.
enable_bits(g, features, flag) ==
    bits(insert(from_bits_truncate(g, features), flag))

\* disable that spares the bits the other declared flags have.
disable_bits_unshared(g, features, flag) ==
    bits(remove(from_bits_truncate(g, features),
                BitAnd(flag,
                       BitNot(OrAll(mods[g],
                                    {n \in DOMAIN mods[g] : mods[g][n] # flag})))))

\* Lines 227-229: what disable writes back, from the word it read.
disable_bits(g, features, flag) ==
    bits(remove(from_bits_truncate(g, features), flag))

\* What the call c writes back when it read the word features.
CallBits(c, features) ==
    IF c.op = "enable"
    THEN enable_bits(c.grp, features, c.arg)
    ELSE disable_bits(c.grp, features, c.arg)

NewBits(t) == CallBits(cur[t], loc[t])

\* The last store of the call of t is done: the function is at its end.
Stored(t) ==
    /\ pc' = [pc EXCEPT ![t] = "stored"]
    /\ loc' = [loc EXCEPT ![t] = 0]
    /\ part' = [part EXCEPT ![t] = 0]
    /\ UNCHANGED cur

\* Line 221 or 229: the plain store `*features = flags.bits()`, as one word
\* (m = WordMax) or its first half.
Store(t, op, m) ==
    /\ pc[t] = "store"
    /\ cur[t].op = op
    /\ FEATURES' = StoreWord(FEATURES, cur[t].grp,
                             Merge(FEATURES[cur[t].grp], NewBits(t), m))
    /\ NoteStore(t, cur[t].grp,
                 Merge(FEATURES[cur[t].grp], NewBits(t), m))
    /\ IF m = WordMax
       THEN Stored(t)
       ELSE /\ pc' = [pc EXCEPT ![t] = "store_rest"]
            /\ part' = [part EXCEPT ![t] = m]
            /\ UNCHANGED <<cur, loc>>
    /\ UNCHANGED <<mods, split, was, did>>

enable_store(t, m) == Store(t, "enable", m)

disable_store(t, m) == Store(t, "disable", m)

\* Line 221 or 229, the other half of a split store.
plain_store_rest(t) ==
    /\ pc[t] = "store_rest"
    /\ FEATURES' = StoreWord(FEATURES, cur[t].grp,
                             Merge(FEATURES[cur[t].grp], NewBits(t),
                                   BitNot(part[t])))
    /\ NoteStore(t, cur[t].grp,
                 Merge(FEATURES[cur[t].grp], NewBits(t), BitNot(part[t])))
    /\ Stored(t)
    /\ UNCHANGED <<mods, split, was, did>>

\* Line 239: `FEATURES.load(Relaxed)` and the truncation.
load_flags(g) == from_bits_truncate(g, FEATURES[g])

\* flags() reading with `FEATURES.swap(0, Relaxed)`.
flags_swaps(t, g) ==
    /\ pc[t] = "idle"
    /\ cur' = [cur EXCEPT ![t] = [op |-> "flags", grp |-> g, arg |-> 0]]
    /\ loc' = [loc EXCEPT ![t] = load_flags(g)]
    /\ pc' = [pc EXCEPT ![t] = "flags_ret"]
    /\ fresh' = [fresh EXCEPT ![t] = TRUE]
    /\ FEATURES' = [FEATURES EXCEPT ![g] = 0]
    /\ UNCHANGED <<mods, split, was, part, did>>

\* Lines 238-240: flags().
flags(t, g) ==
    /\ pc[t] = "idle"
    /\ cur' = [cur EXCEPT ![t] = [op |-> "flags", grp |-> g, arg |-> 0]]
    /\ loc' = [loc EXCEPT ![t] = load_flags(g)]
    /\ pc' = [pc EXCEPT ![t] = "flags_ret"]
    /\ fresh' = [fresh EXCEPT ![t] = TRUE]
    /\ UNCHANGED <<mods, split, was, FEATURES, part, did>>

\* Lines 233-235: is_enabled(flag) is flags().contains(flag).
is_enabled(t, g, flag) ==
    /\ pc[t] = "idle"
    /\ cur' = [cur EXCEPT ![t] = [op |-> "is_enabled", grp |-> g, arg |-> flag]]
    /\ loc' = [loc EXCEPT ![t] = contains(load_flags(g), flag)]
    /\ pc' = [pc EXCEPT ![t] = "is_enabled_ret"]
    /\ fresh' = [fresh EXCEPT ![t] = TRUE]
    /\ UNCHANGED <<mods, split, was, FEATURES, part, did>>

\* return that waits until no other thread is between its load and its
\* store.
return_waits(t) ==
    /\ pc[t] \in {"stored", "flags_ret", "is_enabled_ret", "truncate_ret"}
    /\ \A u \in Threads \ {t} : pc[u] \notin {"load_rest", "store", "store_rest"}
    /\ pc' = [pc EXCEPT ![t] = "idle"]
    /\ cur' = [cur EXCEPT ![t] = NoCall]
    /\ loc' = [loc EXCEPT ![t] = 0]
    /\ fresh' = [fresh EXCEPT ![t] = FALSE]
    /\ UNCHANGED <<mods, split, was, FEATURES, part, did>>

\* Lines 222, 230, 235, 240: the call of t returns to its caller.
return(t) ==
    /\ pc[t] \in {"stored", "flags_ret", "is_enabled_ret", "truncate_ret"}
    /\ pc' = [pc EXCEPT ![t] = "idle"]
    /\ cur' = [cur EXCEPT ![t] = NoCall]
    /\ loc' = [loc EXCEPT ![t] = 0]
    /\ fresh' = [fresh EXCEPT ![t] = FALSE]
    /\ UNCHANGED <<mods, split, was, FEATURES, part, did>>

Next ==
    \E t \in Threads :
        \/ \E g \in DOMAIN mods : \E flag \in FlagsValues(g), m \in Accesses :
              enable_call(t, g, flag, m)
        \/ \E g \in DOMAIN mods : \E flag \in FlagsValues(g), m \in Accesses :
              disable_call(t, g, flag, m)
        \/ plain_load_rest(t)
        \/ \E m \in Accesses : enable_store(t, m)
        \/ \E m \in Accesses : disable_store(t, m)
        \/ plain_store_rest(t)
        \/ \E g \in DOMAIN mods : flags(t, g)
        \/ \E g \in DOMAIN mods : \E flag \in FlagsValues(g) :
              is_enabled(t, g, flag)
        \/ return(t)

Spec == Init /\ [][Next]_vars

\* A step of the call thread t is in: the rest of its load, its store, its
\* return.
Continue(t) ==
    \/ plain_load_rest(t)
    \/ \E m \in Accesses : enable_store(t, m)
    \/ \E m \in Accesses : disable_store(t, m)
    \/ plain_store_rest(t)
    \/ return(t)

LiveInit ==
    /\ \E b \in LiveBuilds : mods = b.mods /\ split = b.split
    /\ FEATURES = [g \in DOMAIN mods |-> ATOMIC_USIZE_INIT]
    /\ pc = [t \in Threads |-> "idle"]
    /\ cur = [t \in Threads |-> NoCall]
    /\ loc = [t \in Threads |-> 0]
    /\ part = [t \in Threads |-> 0]
    /\ fresh = [t \in Threads |-> FALSE]
    /\ did = [t \in Threads |-> NoCall]
    /\ was = FEATURES

\* Every thread that is in a call is scheduled again.
FairSpec ==
    LiveInit /\ [][Next]_vars /\ \A t \in Threads : WF_pc(Continue(t))

(***************************************************************************)
(* The calls one after another: a call starts only when no other thread is *)
(* in a call.  The threads start from any word enable calls can have left. *)
(***************************************************************************)
\* The words enable calls from Init can leave in a module declared as d.
EnabledWords(d) == {OrAll(d, S) : S \in SUBSET DOMAIN d}

\* The words of the modules decl after some enable calls from Init.
StartWords(decl) ==
    {F \in [DOMAIN decl -> UNION {EnabledWords(decl[g]) : g \in DOMAIN decl}] :
        \A g \in DOMAIN decl : F[g] \in EnabledWords(decl[g])}

SeqInit ==
    /\ \E b \in SeqBuilds :
          /\ mods = b.mods
          /\ split = b.split
          /\ FEATURES \in StartWords(b.mods)
    /\ pc = [t \in Threads |-> "idle"]
    /\ cur = [t \in Threads |-> NoCall]
    /\ loc = [t \in Threads |-> 0]
    /\ part = [t \in Threads |-> 0]
    /\ fresh = [t \in Threads |-> FALSE]
    /\ did = [t \in Threads |-> NoCall]
    /\ was = FEATURES

\* No thread but t is in a call.
Alone(t) == \A u \in Threads \ {t} : pc[u] = "idle"

SeqNext ==
    \E t \in Threads :
        \/ \E g \in DOMAIN mods : \E flag \in FlagsValues(g), m \in Accesses :
              Alone(t) /\ enable_call(t, g, flag, m)
        \/ \E g \in DOMAIN mods : \E flag \in FlagsValues(g), m \in Accesses :
              Alone(t) /\ disable_call(t, g, flag, m)
        \/ Alone(t) /\ plain_load_rest(t)
        \/ \E m \in Accesses : Alone(t) /\ enable_store(t, m)
        \/ \E m \in Accesses : Alone(t) /\ disable_store(t, m)
        \/ Alone(t) /\ plain_store_rest(t)
        \/ \E g \in DOMAIN mods : Alone(t) /\ flags(t, g)
        \/ \E g \in DOMAIN mods : \E flag \in FlagsValues(g) :
              Alone(t) /\ is_enabled(t, g, flag)
        \/ Alone(t) /\ return(t)

SeqSpec == SeqInit /\ [][SeqNext]_vars

(***************************************************************************)
(* Flags::from_bits_truncate called on raw words, beside the two reads.    *)
(***************************************************************************)
\* `Flags::from_bits_truncate(raw)` of module g, as lines 219, 227 and 239
\* call it.
truncate_call(t, g, raw) ==
    /\ pc[t] = "idle"
    /\ cur' = [cur EXCEPT ![t] = [op |-> "truncate", grp |-> g, arg |-> raw]]
    /\ loc' = [loc EXCEPT ![t] = from_bits_truncate(g, raw)]
    /\ pc' = [pc EXCEPT ![t] = "truncate_ret"]
    /\ UNCHANGED <<mods, split, was, FEATURES, part, fresh, did>>

PureNext ==
    \E t \in Threads :
        \/ \E g \in DOMAIN mods : \E raw \in RawWords :
              Alone(t) /\ truncate_call(t, g, raw)
        \/ \E g \in DOMAIN mods : Alone(t) /\ flags(t, g)
        \/ \E g \in DOMAIN mods : \E flag \in FlagsValues(g) :
              Alone(t) /\ is_enabled(t, g, flag)
        \/ Alone(t) /\ return(t)

PureSpec == SeqInit /\ [][PureNext]_vars

TypeOK ==
    /\ \E b \in Builds \cup SeqBuilds \cup LiveBuilds :
          mods = b.mods /\ split = b.split
    /\ \A g \in DOMAIN mods : FEATURES[g] \in 0..WordMax
    /\ \A t \in Threads :
          pc[t] \in {"idle", "load_rest", "store", "store_rest", "stored",
                     "flags_ret", "is_enabled_ret", "truncate_ret"}

(***************************************************************************)
(* Vocabulary of the properties.                                           *)
(***************************************************************************)
Mutators == {"enable", "disable"}

\* The enable/disable call of t, if any, has returned to its caller.
Returned(t) == pc[t] \in {"idle", "flags_ret", "is_enabled_ret"}

\* Thread u takes a store step of an enable/disable.
StoreStep(u) == pc[u] \in {"store", "store_rest"} /\ pc'[u] # pc[u]

\* The module whose function thread t executes in this step, if it takes one.
StepModule(t) == IF pc[t] = "idle" THEN cur'[t].grp ELSE cur[t].grp

\* The words that running the one call of each thread of S on module g, one
\* call at a time in some order, can leave in the word that held w.
RECURSIVE Serial(_, _)
Serial(S, w) ==
    IF S = {} THEN {w}
    ELSE UNION {Serial(S \ {t}, CallBits(did[t], w)) : t \in S}

(***************************************************************************)
(* C1.  Threads that each call enable once, on pairwise different flags of *)
(* one module, lose no update: once all the calls have returned, every one *)
(* of the flags is enabled, in the word and in every is_enabled read that  *)
(* the word has not changed under.                                         *)
(***************************************************************************)
C1_NoLostEnable ==
    \A g \in DOMAIN mods :
        (/\ \A t \in Threads :
               /\ Returned(t)
               /\ did[t].op = "enable"
               /\ did[t].grp = g
               /\ did[t].arg \in Declared(g)
         /\ \A t, u \in Threads : t # u => did[t].arg # did[u].arg)
        => \A t \in Threads :
              /\ contains(load_flags(g), did[t].arg)
              /\ \A r \in Threads :
                    (/\ pc[r] = "is_enabled_ret"
                     /\ fresh[r]
                     /\ cur[r].grp = g
                     /\ cur[r].arg = did[t].arg)
                    => loc[r] = TRUE

(***************************************************************************)
(* C2.  enable and disable are indivisible: when every thread has made at  *)
(* most one enable/disable call and all of them have returned, the word of *)
(* every module is what running those calls one at a time, in some order,  *)
(* from the initial word leaves.                                           *)
(***************************************************************************)
C2_Serializable ==
    (\A t \in Threads : Returned(t) /\ did[t] # ManyCalls)
    => \A g \in DOMAIN mods :
          FEATURES[g] \in Serial({t \in Threads : did[t].grp = g},
                                 ATOMIC_USIZE_INIT)

(***************************************************************************)
(* C3.  is_enabled(f) reflects the last completed enable/disable of f:     *)
(* when thread t has made one enable/disable call, of the declared flag f, *)
(* and the other threads have only called enable/disable on other flags,   *)
(* an is_enabled(f) that t starts after its call returned gives true after *)
(* enable(f) and false after disable(f).                                   *)
(***************************************************************************)
C3_ReadsLastCompleted ==
    \A t \in Threads :
        (/\ pc[t] = "is_enabled_ret"
         /\ did[t].op \in Mutators
         /\ did[t].grp = cur[t].grp
         /\ did[t].arg = cur[t].arg
         /\ did[t].arg \in Declared(did[t].grp)
         /\ \A u \in Threads \ {t} :
               \/ did[u] = NoCall
               \/ /\ did[u].op \in Mutators
                  /\ did[u].grp = did[t].grp
                  /\ did[u].arg \in Declared(did[u].grp) \ {did[t].arg})
        => loc[t] = (did[t].op = "enable")

(***************************************************************************)
(* C4.  Before any enable or disable call, the word of every module is     *)
(* zero and is_enabled is false for every declared flag.                   *)
(***************************************************************************)
C4_FreshGroupAllDisabled ==
    (\A t \in Threads : did[t] = NoCall)
    => /\ \A g \in DOMAIN mods : FEATURES[g] = 0
       /\ \A t \in Threads :
             /\ (pc[t] = "is_enabled_ret" /\ cur[t].arg \in Declared(cur[t].grp))
                => loc[t] = FALSE
             /\ pc[t] = "flags_ret" => loc[t] = 0

W4_FreshGroupRead ==
    /\ \A t \in Threads : did[t] = NoCall
    /\ \E t \in Threads :
          /\ pc[t] = "is_enabled_ret"
          /\ cur[t].arg \in Declared(cur[t].grp)
          /\ loc[t] = FALSE

(***************************************************************************)
(* C5.  enable(f) followed by is_enabled(f), with no change of the word in *)
(* between, gives true, and disable(f) followed by is_enabled(f) gives     *)
(* false, for every declared flag f and whatever the word was before.      *)
(***************************************************************************)
\* is_enabled(f) of r read the word after the enable/disable of f of t had
\* stored, and nothing else changed the word since that call started.
ReadAfter(t, r) ==
    /\ t # r
    /\ pc[t] = "stored"
    /\ fresh[t]
    /\ pc[r] = "is_enabled_ret"
    /\ fresh[r]
    /\ cur[r].grp = cur[t].grp
    /\ cur[r].arg = cur[t].arg
    /\ cur[t].arg \in Declared(cur[t].grp)

C5_MutateThenRead ==
    \A t, r \in Threads :
        ReadAfter(t, r) => loc[r] = (cur[t].op = "enable")

W5_DisabledThenRead ==
    \E t, r \in Threads :
        /\ ReadAfter(t, r)
        /\ cur[t].op = "disable"
        /\ FEATURES[cur[t].grp] # 0
        /\ loc[r] = FALSE

(***************************************************************************)
(* C6.  enable and disable are idempotent: a call that repeats the call    *)
(* made just before it, with no change of the word in between, leaves the  *)
(* word as that call left it; so does an enable of flags that are all set  *)
(* and a disable of flags that are all clear.                              *)
(***************************************************************************)
\* The call of u is the call t has just made.
Repeats(u) ==
    \E t \in Threads \ {u} :
        pc[t] = "stored" /\ fresh[t] /\ cur[t] = cur[u]

\* The call of u found its flags as it is to leave them.
AlreadyThere(u) ==
    IF cur[u].op = "enable"
    THEN BitAnd(loc[u], cur[u].arg) = cur[u].arg
    ELSE BitAnd(loc[u], cur[u].arg) = 0

C6_Idempotent ==
    [][\A u \in Threads :
          (StoreStep(u) /\ fresh[u] /\ (Repeats(u) \/ AlreadyThere(u)))
          => FEATURES' = FEATURES]_vars

W6_RepeatedEnable ==
    \E t, u \in Threads :
        /\ t # u
        /\ pc[t] = "stored" /\ fresh[t]
        /\ pc[u] = "stored" /\ fresh[u]
        /\ cur[t] = cur[u]
        /\ cur[t].op = "enable"
        /\ cur[t].arg \in Declared(cur[t].grp)
        /\ FEATURES[cur[t].grp] = cur[t].arg

(***************************************************************************)
(* C7.  The flags of a module are independent: an enable(A) or disable(A)  *)
(* that no other change of the word interleaves with leaves is_enabled(B)  *)
(* as it was when the call started, for every declared flag B that shares  *)
(* no bit with A.                                                          *)
(***************************************************************************)
C7_FlagsIndependent ==
    [][\A u \in Threads :
          (StoreStep(u) /\ fresh[u])
          => \A B \in Declared(cur[u].grp) :
                BitAnd(B, cur[u].arg) = 0
                => (contains(from_bits_truncate(cur[u].grp,
                                                FEATURES'[cur[u].grp]), B)
                    = contains(from_bits_truncate(cur[u].grp, loc[u]), B))]_vars

\* tests::disabling, lines 286-288: disable of one flag done, the other set.
W7_DisabledBesideEnabled ==
    \E u \in Threads :
        /\ mods = TestModules
        /\ pc[u] = "stored" /\ fresh[u]
        /\ cur[u] = [op |-> "disable", grp |-> "f", arg |-> 2]
        /\ FEATURES["f"] = 1

(***************************************************************************)
(* C8.  flags() is a consistent snapshot: with no change of the word       *)
(* between the two reads, the Flags value flags() returned contains f if   *)
(* and only if is_enabled(f) returned true; and the value a caller holds   *)
(* stays as it is whatever is stored to the word afterwards.               *)
(***************************************************************************)
SnapshotAgrees ==
    \A r1, r2 \in Threads :
        (/\ pc[r1] = "flags_ret" /\ fresh[r1]
         /\ pc[r2] = "is_enabled_ret" /\ fresh[r2]
         /\ cur[r1].grp = cur[r2].grp)
        => loc[r2] = (BitAnd(loc[r1], cur[r2].arg) = cur[r2].arg)

SnapshotKept ==
    \A t \in Threads :
        (pc[t] = "flags_ret" /\ pc'[t] = "flags_ret") => loc'[t] = loc[t]

C8_SnapshotConsistent == []SnapshotAgrees /\ [][SnapshotKept]_vars

W8_SnapshotAndRead ==
    \E r1, r2 \in Threads :
        /\ pc[r1] = "flags_ret" /\ fresh[r1]
        /\ pc[r2] = "is_enabled_ret" /\ fresh[r2]
        /\ cur[r1].grp = cur[r2].grp
        /\ cur[r2].arg \in Declared(cur[r2].grp)
        /\ loc[r1] = all(cur[r1].grp)
        /\ loc[r2] = TRUE

(***************************************************************************)
(* C9.  Modules are independent: a step of enable, disable, is_enabled or  *)
(* flags of one module leaves the word of every other module, and so what  *)
(* flags() of the other module loads, unchanged.                           *)
(***************************************************************************)
C9_GroupsIndependent ==
    [][\A t \in Threads :
          pc'[t] # pc[t]
          => \A h \in DOMAIN mods \ {StepModule(t)} :
                /\ FEATURES'[h] = FEATURES[h]
                /\ from_bits_truncate(h, FEATURES'[h]) = load_flags(h)]_vars

\* Lines 160-161: srv::enable(srv::BitTorrentDownloading) and
\* ux::enable(ux::JsonOutput), the second one just stored.
W9_BothGroupsSet ==
    \E t \in Threads :
        /\ mods = DocModules
        /\ pc[t] = "stored"
        /\ cur[t] = [op |-> "enable", grp |-> "ux", arg |-> 128]
        /\ FEATURES["ux"] = 128
        /\ FEATURES["srv"] = 64

Bit(w, i) == (w \div 2^i) % 2

\* Bit i is a bit of some declared flag of module g.
DeclaredBit(g, i) == \E B \in Declared(g) : Bit(B, i) = 1

(***************************************************************************)
(* C11.  Truncation: Flags::from_bits_truncate(raw) has every bit that no  *)
(* declared flag has clear and every bit of a declared flag as raw has it; *)
(* and what flags() returns has no bit outside the declared flags.         *)
(***************************************************************************)
C11_Truncation ==
    \A t \in Threads :
        /\ pc[t] = "truncate_ret"
           => \A i \in 0..(Width - 1) :
                 Bit(loc[t], i) = IF DeclaredBit(cur[t].grp, i)
                                  THEN Bit(cur[t].arg, i)
                                  ELSE 0
        /\ pc[t] = "flags_ret"
           => \A i \in 0..(Width - 1) :
                 Bit(loc[t], i) = 1 => DeclaredBit(cur[t].grp, i)

\* A raw word with declared and undeclared bits, truncated.
W11_TruncatedRaw ==
    \E t \in Threads :
        /\ pc[t] = "truncate_ret"
        /\ loc[t] # cur[t].arg
        /\ loc[t] # 0

(***************************************************************************)
(* C12.  Every call completes and none blocks: a thread in a call always   *)
(* has a step to take, whatever the other threads are doing, an idle       *)
(* thread can always start a read, and under fair scheduling of the        *)
(* threads every call that started returns.                                *)
(***************************************************************************)
NonBlocking ==
    \A t \in Threads :
        /\ pc[t] # "idle" => ENABLED Continue(t)
        /\ pc[t] = "idle" => \A g \in DOMAIN mods : ENABLED flags(t, g)

C12_CallsComplete ==
    /\ []NonBlocking
    /\ \A t \in Threads : (pc[t] # "idle") ~> (pc[t] = "idle")

\* A read that started and returned while a store was half done.
W12_ReadDuringWrite ==
    \E t, r \in Threads :
        /\ pc[t] = "store_rest"
        /\ pc[r] = "flags_ret"
        /\ fresh[r]
        /\ loc[r] # 0

(***************************************************************************)
(* C13.  No transition is restricted: an idle thread can call enable and   *)
(* disable with every Flags value in every state; a disable of all the     *)
(* flags that no other change of the word interleaves with leaves the word *)
(* empty, from whatever word it found; and an enable of the flags S that   *)
(* finds the word empty leaves exactly S.  So every set of declared flags  *)
(* is reached from the initial state and from every other state.           *)
(***************************************************************************)
CallsOpen ==
    \A t \in Threads :
        pc[t] = "idle"
        => \A g \in DOMAIN mods : \A flag \in FlagsValues(g) :
              \E m \in Accesses :
                  /\ ENABLED enable_call(t, g, flag, m)
                  /\ ENABLED disable_call(t, g, flag, m)

ClearsThenSets ==
    \A u \in Threads :
        (StoreStep(u) /\ pc'[u] = "stored" /\ fresh[u])
        => /\ (cur[u].op = "disable" /\ cur[u].arg = all(cur[u].grp))
              => FEATURES'[cur[u].grp] = 0
           /\ (cur[u].op = "enable" /\ loc[u] = 0)
              => FEATURES'[cur[u].grp] = cur[u].arg

C13_NoTransitionRestriction == []CallsOpen /\ [][ClearsThenSets]_vars

\* After other calls, a disable of all the flags and then an enable of one
\* flag: the word holds that flag alone.
W13_ClearedThenSet ==
    \E t, u \in Threads :
        /\ did[t] = ManyCalls
        /\ pc[t] = "stored"
        /\ cur[t].op = "disable"
        /\ cur[t].arg = all(cur[t].grp)
        /\ pc[u] = "stored" /\ fresh[u]
        /\ cur[u].op = "enable"
        /\ cur[u].grp = cur[t].grp
        /\ cur[u].arg \in Declared(cur[u].grp)
        /\ FEATURES[cur[u].grp] = cur[u].arg

\* Thread t has made the call op(a) on module g and it has returned; no other
\* enable or disable has been called since the threads started.
OnlyCall(t, op, g, a) ==
    /\ Returned(t)
    /\ did[t] = [op |-> op, grp |-> g, arg |-> a]
    /\ \A u \in Threads \ {t} : did[u] = NoCall

(***************************************************************************)
(* C14.  Flags declared with a common bit are accepted and aliased: when   *)
(* A and B of one module share a bit, every call still runs to its end;    *)
(* disable(A) from a word where B is enabled leaves B not enabled, in the  *)
(* word and in is_enabled(B); and enable(A) sets the bits A shares with B. *)
(***************************************************************************)
C14_OverlapAliases ==
    \A g \in DOMAIN mods : \A A, B \in Declared(g) :
        (A # B /\ BitAnd(A, B) # 0)
        => \A t \in Threads :
              /\ pc[t] # "idle" => ENABLED Continue(t)
              /\ (OnlyCall(t, "disable", g, A) /\ BitAnd(was[g], B) = B)
                 => /\ BitAnd(FEATURES[g], B) # B
                    /\ \A r \in Threads :
                          (/\ pc[r] = "is_enabled_ret"
                           /\ cur[r].grp = g
                           /\ cur[r].arg = B)
                          => loc[r] = FALSE
              /\ OnlyCall(t, "enable", g, A)
                 => /\ BitAnd(FEATURES[g], BitAnd(A, B)) = BitAnd(A, B)
                    /\ \A r \in Threads :
                          (pc[r] = "flags_ret" /\ cur[r].grp = g)
                          => BitAnd(loc[r], BitAnd(A, B)) = BitAnd(A, B)

\* B enabled, then disable(A), then is_enabled(B), with A and B overlapping.
W14_AliasedDisable ==
    \E t, r \in Threads :
        /\ mods = OverlapModules
        /\ BitAnd(was["ov"], 6) = 6
        /\ OnlyCall(t, "disable", "ov", 3)
        /\ pc[r] = "is_enabled_ret"
        /\ cur[r].arg = 6
        /\ loc[r] = FALSE

(***************************************************************************)
(* C15.  In every reachable state, whatever the calls and however they     *)
(* interleave, the word of every module has only bits of declared flags.   *)
(***************************************************************************)
C15_OnlyDeclaredBits ==
    \A g \in DOMAIN mods : \A i \in 0..(Width - 1) :
        Bit(FEATURES[g], i) = 1 => DeclaredBit(g, i)

\* Two calls interleaved, one after a stale load, and every flag stored.
W15_AllStored ==
    \E t, u \in Threads :
        /\ t # u
        /\ pc[t] = "stored" /\ ~fresh[t]
        /\ pc[u] = "stored"
        /\ cur[t].grp = cur[u].grp
        /\ FEATURES[cur[t].grp] = all(cur[t].grp)

(***************************************************************************)
(* C16.  enable, disable and is_enabled take any Flags value: one call     *)
(* enable(x) sets every bit of x and one call disable(x) clears every bit  *)
(* of x, leaving the other bits as they were; is_enabled(x) is true if and *)
(* only if every bit of x is set in the word; and is_enabled of the empty  *)
(* Flags value is true in every state.                                     *)
(***************************************************************************)
C16_AnyFlagSet ==
    \A g \in DOMAIN mods :
        /\ \A t \in Threads : \A x \in FlagsValues(g) :
              /\ OnlyCall(t, "enable", g, x)
                 => \A i \in 0..(Width - 1) :
                       Bit(FEATURES[g], i) = IF Bit(x, i) = 1 THEN 1
                                             ELSE Bit(was[g], i)
              /\ OnlyCall(t, "disable", g, x)
                 => \A i \in 0..(Width - 1) :
                       Bit(FEATURES[g], i) = IF Bit(x, i) = 1 THEN 0
                                             ELSE Bit(was[g], i)
        /\ \A r \in Threads :
              (pc[r] = "is_enabled_ret" /\ cur[r].grp = g)
              => /\ loc[r] = (\A i \in 0..(Width - 1) :
                                 Bit(cur[r].arg, i) = 1
                                 => Bit(FEATURES[g], i) = 1)
                 /\ cur[r].arg = 0 => loc[r] = TRUE

\* enable(Alpha | Beta) in one call from the empty word, then
\* is_enabled(Alpha | Beta).
W16_BothInOneCall ==
    \E t, r \in Threads :
        /\ mods = TestModules
        /\ was["f"] = 0
        /\ OnlyCall(t, "enable", "f", 3)
        /\ pc[r] = "is_enabled_ret"
        /\ cur[r].arg = 3
        /\ loc[r] = TRUE

(***************************************************************************)
(* C17.  is_enabled and flags are pure reads: no step of either, in any    *)
(* state and whatever the other threads are in the middle of, changes the  *)
(* word of any module.                                                     *)
(***************************************************************************)
\* Thread t takes a step of is_enabled or of flags: the call or the return.
ReadStep(t) ==
    /\ pc'[t] # pc[t]
    /\ \/ pc[t] = "idle" /\ cur'[t].op \in {"flags", "is_enabled"}
       \/ pc[t] \in {"flags_ret", "is_enabled_ret"}

C17_ReadsArePure ==
    [][\A t \in Threads : ReadStep(t) => FEATURES' = FEATURES]_vars

\* flags() has read a word with flags set while a store of another thread
\* is half done.
W17_ReadBesideWrite ==
    \E r, u \in Threads :
        /\ pc[r] = "flags_ret"
        /\ loc[r] # 0
        /\ pc[u] = "store_rest"
        /\ cur[u].grp = cur[r].grp
        /\ FEATURES[cur[r].grp] = loc[r]

(***************************************************************************)
(* C18.  Calls made one after another on flags that share no bit commute:  *)
(* after op1(A) and op2(B), in either order, the word is what the other    *)
(* order leaves from the same word.  And enable(f) then disable(f) from a  *)
(* word where f is clear, or disable(f) then enable(f) from a word where f *)
(* is set, leaves the word as it was.                                      *)
(***************************************************************************)
\* Thread u has just stored in the call that followed the one call of t.
Followed(t, u) ==
    /\ t # u
    /\ pc[t] = "idle"
    /\ did[t].op \in Mutators
    /\ pc[u] = "stored"
    /\ did[u] = cur[u]
    /\ did[u].grp = did[t].grp
    /\ did[u].arg = did[t].arg

C18_CommuteAndUndo ==
    \A t, u \in Threads :
        /\ (/\ t # u
            /\ Returned(t) /\ Returned(u)
            /\ did[t].op \in Mutators /\ did[u].op \in Mutators
            /\ did[t].grp = did[u].grp
            /\ BitAnd(did[t].arg, did[u].arg) = 0)
           => /\ FEATURES[did[t].grp]
                   = CallBits(did[u], CallBits(did[t], was[did[t].grp]))
              /\ FEATURES[did[t].grp]
                   = CallBits(did[t], CallBits(did[u], was[did[t].grp]))
        /\ (/\ Followed(t, u)
            /\ did[t].op = "enable" /\ did[u].op = "disable"
            /\ BitAnd(was[did[t].grp], did[t].arg) = 0)
           => FEATURES[did[t].grp] = was[did[t].grp]
        /\ (/\ Followed(t, u)
            /\ did[t].op = "disable" /\ did[u].op = "enable"
            /\ BitAnd(was[did[t].grp], did[t].arg) = did[t].arg)
           => FEATURES[did[t].grp] = was[did[t].grp]

\* tests::disabling: from Cool enabled, disable(Cool) and enable(Beans).
W18_DisabledAndEnabled ==
    \E t, u \in Threads :
        /\ mods = DisablingModules
        /\ was["f"] = 64
        /\ Returned(t) /\ Returned(u)
        /\ did[t] = [op |-> "disable", grp |-> "f", arg |-> 64]
        /\ did[u] = [op |-> "enable", grp |-> "f", arg |-> 128]
        /\ FEATURES["f"] = 128

====
